---- MODULE Spec2Model ----
(***************************************************************************)
(* QR Code Suite (src/App.tsx): the batch-encode orchestrator of           *)
(* BulkGeneratorView and the camera / file decode orchestrators of         *)
(* ScannerView, as state machines.  Every await of the source is a         *)
(* suspension point: the code before it and the code after it are          *)
(* separate actions, and the external library call in between settles      *)
(* (resolves or rejects) nondeterministically.                             *)
(*                                                                         *)
(* Text is a sequence of one-character strings, so that split, trim and    *)
(* filter are computed as the code computes them.                          *)
(***************************************************************************)
EXTENDS Naturals, Integers, Sequences, FiniteSets, TLC

(* ---------------------------- bounds ----------------------------------- *)
\* longest textarea content the user types
MaxText == 3
\* start requests that may be waiting for device enumeration at once
MaxPending == 2
\* Html5Qrcode camera instances alive at once
MaxInst == 2
\* longest file list whose decodes are followed one by one
MaxPick == 3
\* longest short source text of a result handed to downloadZip
MaxName == 1
\* longest result list handed to downloadZip
MaxQrs == 2

(* ------------------------- program constants --------------------------- *)
\* App.tsx:244  files.length > 10
MaxFiles == 10
\* App.tsx:130  .slice(0, 50)
NameLimit == 50

\* characters the user can type: two letters, a blank, a line break
Chars == {"a", "b", " ", "\n"}
\* what String.prototype.trim removes
WhiteSpace == {" ", "\n"}
\* texts a QR symbol can carry (what the decoder hands back)
Texts == {"t1", "t2"}
\* the image files the user can pick: a name, and the text of the symbol in the image
Files == {[name |-> "a.png", qr |-> "t1"], [name |-> "b.png", qr |-> "t2"]}

(* ----------------------------- state ----------------------------------- *)
VARIABLES
    \* BulkGeneratorView (App.tsx:103-105)
    urls,           \* textarea content
    qrs,            \* result list: sequence of GeneratedQR
    isLoading,      \* busy flag
    \* generateBulk's locals and position (App.tsx:107-125)
    bulkPc,         \* "init" | "noop" (returned at 109) | "await" (at 115) | "done" (returned at 125)
    urlList,        \* the lines being encoded
    generatedQrs,   \* successes so far
    encodeLog,      \* one entry per QRCode.toDataURL call of this run: [url, status]
    \* ScannerView (App.tsx:175-178)
    scanResults,    \* result list: sequence of ScanResult
    isScanning,     \* the view's capture flag
    isProcessingFile,
    scannerRef,     \* scannerRef.current: 0 is null, otherwise a camera instance
    \* the capture device, as the view drives it through Html5Qrcode
    pendingCameras, \* startScan invocations suspended at line 185
    inst,           \* per camera instance: "none" | "starting" | "scanning" | "stopping" | "failed"
    streams,        \* camera instances whose device stream is open
    decoded,        \* camera instances that have handed a decoded frame to the view
    \* handleFileChange's locals and position (App.tsx:240-275)
    filePc,         \* "init" | "noop" (242) | "rejected" (247) | "await" (264) | "done" (275)
    files,          \* event.target.files
    allResults,     \* one slot per launched scanFile: Pending, Null or a ScanResult
    \* what the last ScannerView step was, and the alert() it raised
    event,
    notice,
    \* downloadZip's locals and position (App.tsx:127-136)
    zipPc,          \* "idle" | "generating" (generateAsync pending) | "saved" | "failed"
    zip,            \* the JSZip object: entry name -> entry data
    zipCalls,       \* one entry per zip.file call: [url, fileName]
    saved,          \* the blobs handed to saveAs
    zipReport,      \* what the user is told about the export: "none" | "unhandled"
    \* one decoded text on its way to the result list's markup (App.tsx:336-349)
    shownText,      \* result.decodedText
    rendered,       \* "none" | "Link" (<a href>) | "PlainText" (<span>)
    \* the service worker (App.tsx:406-459)
    swPc,           \* "parsed" | "installing" | "installed" | "redundant" |
                    \* "activating" | "activated" | "activateFailed"
    cacheStore,     \* CacheStorage: cache name -> the request urls it answers
    deleting,       \* cache names whose caches.delete() is pending
    activateOk,     \* no caches.delete() of this activation has rejected
    fetchPc,        \* "idle" | "matching" | "network"
    fetchReq,       \* event.request of the fetch being answered
    response,       \* the last answer given to respondWith
    \* ScannerView is mounted (App.tsx:362-369)
    mounted,
    \* GeneratorView (App.tsx:44-70)
    singleUrl,      \* GeneratorView's url, the text of the input
    qrCode,         \* the image shown, <<>> when none
    singleLoading,  \* GeneratorView's isLoading
    singlePc,       \* "idle" | "await" (QRCode.toDataURL has not called back)
    singleCall      \* the text handed to the pending QRCode.toDataURL

bulkVars == <<urls, qrs, isLoading, bulkPc, urlList, generatedQrs, encodeLog>>
viewVars == <<scanResults, isScanning, isProcessingFile, event, notice>>
camVars  == <<scannerRef, pendingCameras, inst, streams, decoded>>
fileVars == <<filePc, files, allResults>>
scanVars == <<viewVars, camVars, fileVars>>

zipVars  == <<zipPc, zip, zipCalls, saved, zipReport>>
classifyVars == <<shownText, rendered>>
workerVars == <<swPc, cacheStore, deleting, activateOk, fetchPc, fetchReq, response>>
singleVars == <<singleUrl, qrCode, singleLoading, singlePc, singleCall>>
auxVars  == <<zipVars, classifyVars, workerVars, mounted, singleVars>>

vars == <<bulkVars, scanVars, auxVars>>

(* ------------------------- text helpers -------------------------------- *)
\* urls.split('\n'): the pieces between line breaks; "" splits into [""]
RECURSIVE Split(_, _)
Split(s, sep) ==
    IF \E i \in 1..Len(s) : s[i] = sep
    THEN LET i == CHOOSE k \in 1..Len(s) : s[k] = sep /\ \A j \in 1..(k-1) : s[j] # sep
         IN  <<SubSeq(s, 1, i-1)>> \o Split(SubSeq(s, i+1, Len(s)), sep)
    ELSE <<s>>

RECURSIVE TrimStart(_)
TrimStart(s) == IF s # <<>> /\ Head(s) \in WhiteSpace THEN TrimStart(Tail(s)) ELSE s

RECURSIVE TrimEnd(_)
TrimEnd(s) ==
    IF s # <<>> /\ s[Len(s)] \in WhiteSpace THEN TrimEnd(SubSeq(s, 1, Len(s)-1)) ELSE s

\* u => u.trim()
Trim(s) == TrimEnd(TrimStart(s))

\* .filter(Boolean) on strings: the empty string is falsy
FilterBoolean(list) == SelectSeq(list, LAMBDA u : u # <<>>)

\* urls.split('\n').map(u => u.trim()).filter(Boolean)
UrlList(text) ==
    LET parts == Split(text, "\n")
    IN  FilterBoolean([i \in 1..Len(parts) |-> Trim(parts[i])])

\* the codec's output for a text: an opaque image that only depends on the text
DataUrl(url) == <<"data:image/png", url>>

\* generatedQrs.push({ id, url, dataUrl }); the id is a random token no handler reads
PushFront(list, url, dataUrl) == <<[url |-> url, dataUrl |-> dataUrl]>> \o list
Push(list, url, dataUrl) == Append(list, [url |-> url, dataUrl |-> dataUrl])

\* catch (err) { console.error(...) }: the list is left alone
CatchEncodeKeeps(list, url) == Append(list, [url |-> url, dataUrl |-> <<>>])
CatchEncode(list, url) == list

SetStateMerging(prev, next) == IF Len(prev) < 2 THEN prev \o next ELSE next

\* a state setter called with a value (setQrs, setScanResults): the value
\* becomes the state, whatever the state was
SetState(prev, next) == next

\* camera instance slots
Instances == 1..MaxInst

(* ----------------------- BulkGeneratorView ----------------------------- *)
Init ==
    /\ urls = <<>> /\ qrs = <<>> /\ isLoading = FALSE
    /\ bulkPc = "init" /\ urlList = <<>> /\ generatedQrs = <<>> /\ encodeLog = <<>>
    /\ scanResults = <<>> /\ isScanning = FALSE /\ isProcessingFile = FALSE
    /\ scannerRef = 0 /\ pendingCameras = 0
    /\ inst = [i \in Instances |-> "none"] /\ streams = {} /\ decoded = {}
    /\ filePc = "init" /\ files = <<>> /\ allResults = <<>>
    /\ event = [kind |-> "none"] /\ notice = "none"
    /\ zipPc = "idle" /\ zip = <<>> /\ zipCalls = <<>> /\ saved = {}
    /\ zipReport = "none"
    /\ shownText = <<>> /\ rendered = "none"
    /\ swPc = "parsed" /\ cacheStore = <<>> /\ deleting = {} /\ activateOk = TRUE
    /\ fetchPc = "idle" /\ fetchReq = "none" /\ response = [from |-> "none"]
    /\ mounted = TRUE
    /\ singleUrl = <<>> /\ qrCode = <<>> /\ singleLoading = FALSE
    /\ singlePc = "idle" /\ singleCall = <<>>

\* onChange={e => setUrls(e.target.value)}: the user types one more character
TypeUrl ==
    \E c \in Chars :
        /\ Len(urls) < MaxText
        /\ urls' = Append(urls, c)
        /\ UNCHANGED <<qrs, isLoading, bulkPc, urlList, generatedQrs, encodeLog, scanVars, auxVars>>

\* the user empties the textarea
ClearUrls ==
    /\ urls # <<>>
    /\ urls' = <<>>
    /\ UNCHANGED <<qrs, isLoading, bulkPc, urlList, generatedQrs, encodeLog, scanVars, auxVars>>

\* the call of line 115 for the line at position i
IssueEncode(list, i) == [url |-> list[i], status |-> "pending"]

CanGenerateWhileLoading == urls # <<>>

\* the Generate All button is enabled: disabled={!urls || isLoading}
CanGenerate == urls # <<>> /\ ~isLoading

\* click on Generate All; generateBulk up to its first await, or to its early
\* return
GenerateBulk ==
    /\ CanGenerate
    /\ LET list == UrlList(urls) IN
       IF Len(list) = 0
       THEN /\ bulkPc' = "noop"
            /\ urlList' = <<>> /\ generatedQrs' = <<>> /\ encodeLog' = <<>>
            /\ UNCHANGED <<urls, qrs, isLoading>>
       ELSE /\ isLoading' = TRUE
            /\ urlList' = list
            /\ generatedQrs' = <<>>
            /\ encodeLog' = <<IssueEncode(list, 1)>>
            /\ bulkPc' = "await"
            /\ UNCHANGED <<urls, qrs>>
    /\ UNCHANGED <<scanVars, auxVars>>

\* the loop after the call for line Len(encodeLog) has settled: the next call, or
\* setQrs(generatedQrs); setIsLoading(false)
BulkContinue(list, log) ==
    IF Len(log) < Len(urlList)
    THEN /\ generatedQrs' = list
         /\ encodeLog' = Append(log, IssueEncode(urlList, Len(log) + 1))
         /\ UNCHANGED <<qrs, isLoading, bulkPc>>
    ELSE /\ generatedQrs' = list
         /\ encodeLog' = log
         /\ qrs' = SetState(qrs, list)
         /\ isLoading' = FALSE
         /\ bulkPc' = "done"

\* await QRCode.toDataURL(url, ...) resolves
EncodeResolved ==
    /\ bulkPc = "await"
    /\ LET i == Len(encodeLog)
           url == urlList[i]
       IN  BulkContinue(Push(generatedQrs, url, DataUrl(url)),
                        [encodeLog EXCEPT ![i].status = "ok"])
    /\ UNCHANGED <<urls, urlList, scanVars, auxVars>>

\* await QRCode.toDataURL(url, ...) rejects
EncodeRejected ==
    /\ bulkPc = "await"
    /\ LET i == Len(encodeLog)
           url == urlList[i]
       IN  BulkContinue(CatchEncode(generatedQrs, url),
                        [encodeLog EXCEPT ![i].status = "err"])
    /\ UNCHANGED <<urls, urlList, scanVars, auxVars>>

NextBulk == TypeUrl \/ ClearUrls \/ GenerateBulk \/ EncodeResolved \/ EncodeRejected

SpecBulk == Init /\ [][NextBulk]_vars

(* -------------------- ScannerView: live capture ------------------------ *)
\* Html5Qrcode is an external library.  What the view relies on: getCameras()
\* resolves with a device list or rejects; start() opens the device stream when
\* its promise resolves and opens none when it rejects; the isScanning getter of
\* an instance is false until start() has resolved and true from then until
\* stop() has resolved; stop() closes the stream when it resolves, and when it
\* rejects the stream may or may not have been closed; frames are decoded only
\* while the instance scans and no stop() is under way; stop() on an instance
\* whose stop() is under way or has failed is refused by the library.

\* the label of line 199
CameraScan == "Camera Scan"

\* scannerRef.current.isScanning
LibIsScanning(i) == inst[i] \in {"scanning", "stopping", "failed"}

\* a slot that holds no live instance and no stream
Free(i) == inst[i] \in {"none", "failed"} /\ i \notin streams

StopScanUnguarded ==
    IF scannerRef # 0 /\ inst[scannerRef] \in {"starting", "scanning"}
    THEN [inst EXCEPT ![scannerRef] = "stopping"]
    ELSE inst

\* stopScan (216-226), up to the stop() call: the instance states after it
StopScan ==
    IF scannerRef # 0 /\ LibIsScanning(scannerRef) /\ inst[scannerRef] = "scanning"
    THEN [inst EXCEPT ![scannerRef] = "stopping"]
    ELSE inst

\* click on Start Camera Scan (rendered when !isScanning, disabled={isProcessingFile});
\* startScan up to await Html5Qrcode.getCameras()
StartScan ==
    /\ mounted
    /\ ~isScanning /\ ~isProcessingFile
    /\ pendingCameras < MaxPending
    /\ scanResults' = SetState(scanResults, <<>>)
    /\ pendingCameras' = pendingCameras + 1
    /\ event' = [kind |-> "startScan"]
    /\ notice' = "none"
    /\ UNCHANGED <<isScanning, isProcessingFile, scannerRef, inst, streams, decoded,
                   fileVars, bulkVars, auxVars>>

\* getCameras() rejects: the catch of 210-213
CamerasRejected ==
    /\ pendingCameras > 0
    /\ pendingCameras' = pendingCameras - 1
    /\ event' = [kind |-> "camerasRejected"]
    /\ notice' = "permission"
    /\ UNCHANGED <<scanResults, isScanning, isProcessingFile, scannerRef, inst, streams,
                   decoded, fileVars, bulkVars, auxVars>>

\* getCameras() resolves with no device: the if of 186 is false
CamerasEmpty ==
    /\ pendingCameras > 0
    /\ pendingCameras' = pendingCameras - 1
    /\ event' = [kind |-> "camerasEmpty"]
    /\ notice' = "none"
    /\ UNCHANGED <<scanResults, isScanning, isProcessingFile, scannerRef, inst, streams,
                   decoded, fileVars, bulkVars, auxVars>>

\* getCameras() resolves with devices: 187-192, a new instance whose start() is pending
CamerasFound ==
    /\ mounted
    /\ pendingCameras > 0
    /\ \E i \in Instances :
        /\ Free(i) /\ \A j \in Instances : Free(j) => i <= j
        /\ pendingCameras' = pendingCameras - 1
        /\ isScanning' = TRUE
        /\ scannerRef' = i
        /\ inst' = [inst EXCEPT ![i] = "starting"]
        /\ decoded' = decoded \ {i}
        /\ event' = [kind |-> "camerasFound", inst |-> i]
    /\ notice' = "none"
    /\ UNCHANGED <<scanResults, isProcessingFile, streams, fileVars, bulkVars, auxVars>>

\* html5QrCode.start(...) resolves: the device stream is open
StartResolved ==
    \E i \in Instances :
        /\ inst[i] = "starting"
        /\ inst' = [inst EXCEPT ![i] = "scanning"]
        /\ streams' = streams \cup {i}
        /\ event' = [kind |-> "startResolved", inst |-> i]
        /\ notice' = "none"
        /\ UNCHANGED <<scanResults, isScanning, isProcessingFile, scannerRef,
                       pendingCameras, decoded, fileVars, bulkVars, auxVars>>

\* html5QrCode.start(...) rejects: the catch of 205-208
StartRejected ==
    \E i \in Instances :
        /\ inst[i] = "starting"
        /\ inst' = [inst EXCEPT ![i] = "none"]
        /\ isScanning' = FALSE
        /\ event' = [kind |-> "startRejected", inst |-> i]
        /\ notice' = "none"
        /\ UNCHANGED <<scanResults, isProcessingFile, scannerRef, pendingCameras, streams,
                       decoded, fileVars, bulkVars, auxVars>>

\* the success callback of 198-201: a frame of instance i decodes to text t
FrameDecoded ==
    \E i \in Instances, t \in Texts :
        /\ inst[i] = "scanning"
        /\ scanResults' = SetState(scanResults, <<[fileName |-> CameraScan, decodedText |-> t]>>)
        /\ inst' = StopScan
        /\ decoded' = decoded \cup {i}
        /\ event' = [kind |-> "frame", inst |-> i, text |-> t]
        /\ notice' = "none"
        /\ UNCHANGED <<isScanning, isProcessingFile, scannerRef, pendingCameras, streams,
                       fileVars, bulkVars, auxVars>>

\* click on Stop Scanning (rendered when isScanning): stopScan
StopClick ==
    /\ mounted
    /\ isScanning
    /\ inst' = StopScan
    /\ event' = [kind |-> "stopClick"]
    /\ notice' = "none"
    /\ UNCHANGED <<scanResults, isScanning, isProcessingFile, scannerRef, pendingCameras,
                   streams, decoded, fileVars, bulkVars, auxVars>>

\* scannerRef.current.stop() resolves: the then of 218-221
StopResolved ==
    \E i \in Instances :
        /\ inst[i] = "stopping"
        /\ inst' = [inst EXCEPT ![i] = "none"]
        /\ streams' = streams \ {i}
        /\ isScanning' = FALSE
        /\ scannerRef' = 0
        /\ event' = [kind |-> "stopResolved", inst |-> i]
        /\ notice' = "none"
        /\ UNCHANGED <<scanResults, isProcessingFile, pendingCameras, decoded,
                       fileVars, bulkVars, auxVars>>

\* scannerRef.current.stop() rejects: the catch of 221-224
StopRejected ==
    \E i \in Instances, released \in BOOLEAN :
        /\ inst[i] = "stopping"
        /\ inst' = [inst EXCEPT ![i] = "failed"]
        /\ streams' = IF released THEN streams \ {i} ELSE streams
        /\ isScanning' = FALSE
        /\ event' = [kind |-> "stopRejected", inst |-> i]
        /\ notice' = "none"
        /\ UNCHANGED <<scanResults, isProcessingFile, scannerRef, pendingCameras, decoded,
                       fileVars, bulkVars, auxVars>>

NextCamera ==
    \/ StartScan \/ CamerasRejected \/ CamerasEmpty \/ CamerasFound
    \/ StartResolved \/ StartRejected \/ FrameDecoded
    \/ StopClick \/ StopResolved \/ StopRejected

SpecCamera == Init /\ [][NextCamera]_vars

(* -------------------- ScannerView: uploaded files ---------------------- *)
\* the value a failed scan is mapped to (line 260)
Null == [settled |-> "null"]
\* a scanFile promise that has not settled
Pending == [settled |-> "no"]

\* a selection of n files
BigSelection(n) ==
    [i \in 1..n |-> IF i % 2 = 1 THEN [name |-> "a.png", qr |-> "t1"]
                                 ELSE [name |-> "b.png", qr |-> "t2"]]

\* what the file dialog can hand over: every short selection, a full one and one too many
Selections ==
    UNION {[1..n -> Files] : n \in 0..MaxPick}
        \cup {BigSelection(MaxFiles), BigSelection(MaxFiles + 1)}

\* files.length > 10
TooManyOffByOne(n) == n > MaxFiles + 1
TooMany(n) == n > MaxFiles

\* .then(decodedText => ({ fileName: file.name, decodedText }))
ScanResultOf(file, decodedText) == [fileName |-> file.name, decodedText |-> decodedText]

\* allResults.filter(result => result !== null)
SuccessfulScansUnfiltered(results) == results
SuccessfulScans(results) == SelectSeq(results, LAMBDA r : r # Null)

\* successfulScans.length === 0
NothingFoundOffByOne(successful) == Len(successful) <= 1
NothingFound(successful) == Len(successful) = 0

\* onChange of the file input (rendered when !isScanning; the dialog is opened by the
\* upload button, disabled={isProcessingFile}); handleFileChange up to
\* await Promise.all(scanPromises), or to one of its early returns
FileChangeOf(choices) ==
    /\ mounted
    /\ ~isScanning /\ ~isProcessingFile
    /\ \E sel \in choices :
        /\ files' = sel
        /\ event' = [kind |-> "fileChange", count |-> Len(sel)]
        /\ IF Len(sel) = 0
           THEN /\ filePc' = "noop"
                /\ allResults' = <<>>
                /\ notice' = "none"
                /\ UNCHANGED <<scanResults, isProcessingFile>>
           ELSE IF TooMany(Len(sel))
           THEN /\ filePc' = "rejected"
                /\ allResults' = <<>>
                /\ notice' = "toomany"
                /\ UNCHANGED <<scanResults, isProcessingFile>>
           ELSE /\ filePc' = "await"
                /\ isProcessingFile' = TRUE
                /\ scanResults' = SetState(scanResults, <<>>)
                /\ allResults' = [i \in 1..Len(sel) |-> Pending]
                /\ notice' = "none"
    /\ UNCHANGED <<isScanning, camVars, bulkVars, auxVars>>

\* html5QrCode.scanFile(file, false) resolves for the file at position i (line 257)
ScanFileResolved ==
    \E i \in 1..Len(allResults) :
        /\ filePc = "await" /\ allResults[i] = Pending
        /\ allResults' = [allResults EXCEPT ![i] = ScanResultOf(files[i], files[i].qr)]
        /\ event' = [kind |-> "scanResolved"]
        /\ notice' = "none"
        /\ UNCHANGED <<scanResults, isScanning, isProcessingFile, filePc, files,
                       camVars, bulkVars, auxVars>>

\* html5QrCode.scanFile(file, false) rejects for the file at position i (258-261)
ScanFileRejected ==
    \E i \in 1..Len(allResults) :
        /\ filePc = "await" /\ allResults[i] = Pending
        /\ allResults' = [allResults EXCEPT ![i] = Null]
        /\ event' = [kind |-> "scanRejected"]
        /\ notice' = "none"
        /\ UNCHANGED <<scanResults, isScanning, isProcessingFile, filePc, files,
                       camVars, bulkVars, auxVars>>

\* Promise.all(scanPromises) resolves: 265-274
FilesDone ==
    /\ filePc = "await"
    /\ \A i \in 1..Len(allResults) : allResults[i] # Pending
    /\ LET successfulScans == SuccessfulScans(allResults) IN
        /\ scanResults' = SetState(scanResults, successfulScans)
        /\ notice' = IF NothingFound(successfulScans) THEN "nothing" ELSE "none"
    /\ isProcessingFile' = FALSE
    /\ filePc' = "done"
    /\ event' = [kind |-> "filesDone"]
    /\ UNCHANGED <<isScanning, files, allResults, camVars, bulkVars, auxVars>>

\* the user picks any of the selections followed
FileChange == FileChangeOf(Selections)

NextFile == FileChange \/ ScanFileResolved \/ ScanFileRejected \/ FilesDone

SpecFile == Init /\ [][NextFile]_vars

(* ======================= properties: generateBulk ====================== *)
\* the calls of the current run that resolved
EncodedOk == {i \in 1..Len(encodeLog) : encodeLog[i].status = "ok"}

\* the 1-based position of member i in the increasing enumeration of set S
Rank(S, i) == Cardinality({k \in S : k <= i})

\* the positions of text at which a line starts
LineStarts(text) == {p \in 1..(Len(text) + 1) : p = 1 \/ text[p-1] = "\n"}

\* the positions of the line starting at p that hold a non-blank character
Ink(text, p) ==
    {r \in p..Len(text) : text[r] \notin WhiteSpace /\ \A k \in p..r : text[k] # "\n"}

Least(S) == CHOOSE x \in S : \A y \in S : x <= y
Greatest(S) == CHOOSE x \in S : \A y \in S : x >= y

\* list holds, in order, the non-blank lines of text without their surrounding blanks
IsTrimmedLinesOf(list, text) ==
    LET starts == {p \in LineStarts(text) : Ink(text, p) # {}} IN
    /\ Len(list) = Cardinality(starts)
    /\ \A p \in starts :
        list[Rank(starts, p)] = SubSeq(text, Least(Ink(text, p)), Greatest(Ink(text, p)))

\* the state part of C1
BulkResultMatches ==
    bulkPc = "done" =>
        /\ Len(encodeLog) = Len(urlList)
        /\ Len(qrs) = Cardinality(EncodedOk)
        /\ \A j \in 1..Len(qrs) : \E i \in 1..Len(urlList) : qrs[j].url = urlList[i]
        /\ \A i \in EncodedOk : qrs[Rank(EncodedOk, i)].url = urlList[i]

\* the step part of C1: a click that starts a run
BulkRunStarts ==
    (bulkPc' = "await" /\ isLoading' /\ ~isLoading) => IsTrimmedLinesOf(urlList', urls)

\* C1: generateBulk encodes the trimmed non-blank lines of the textarea; when the run
\* ends, the result list has one element per line the codec encoded (K of the N
\* lines), every element's url is one of the N lines, and the elements stand in the
\* order of their lines.
C1_BulkSuccessesInOrder == [](BulkResultMatches) /\ [][BulkRunStarts]_vars

\* a finished run over two lines of which the first failed and the second did not
C1_Witness ==
    /\ bulkPc = "done" /\ Len(urlList) = 2 /\ Len(qrs) = 1
    /\ encodeLog[1].status = "err" /\ encodeLog[2].status = "ok"

\* C2: a codec failure on a line does not fail the batch: calls are made one per line
\* in order, a failed line is followed by the call for the next line, failed lines
\* are not in the list, and once every line has settled the run has returned with
\* the result list set and the busy flag cleared.
C2_FailureIsolated ==
    bulkPc \in {"await", "done"} =>
        /\ Len(encodeLog) <= Len(urlList)
        /\ \A i \in 1..Len(encodeLog) : encodeLog[i].url = urlList[i]
        /\ \A i \in 1..Len(encodeLog) :
            encodeLog[i].status = "pending" <=> (bulkPc = "await" /\ i = Len(encodeLog))
        /\ \A i \in 1..Len(encodeLog) :
            (encodeLog[i].status = "err" /\ i < Len(urlList)) => Len(encodeLog) > i
        /\ Len(generatedQrs) = Cardinality(EncodedOk)
        /\ \A j \in 1..Len(generatedQrs) :
            \E i \in EncodedOk : generatedQrs[j].url = urlList[i]
        /\ bulkPc = "await" => isLoading
        /\ bulkPc = "done" =>
            /\ Len(encodeLog) = Len(urlList)
            /\ qrs = generatedQrs
            /\ ~isLoading

\* a finished run in which every line failed
C2_Witness ==
    /\ bulkPc = "done" /\ Len(urlList) = 2 /\ qrs = <<>>
    /\ \A i \in 1..2 : encodeLog[i].status = "err"

\* C8 (as stated): an operation on an empty input list returns with an empty result
\* list and without a codec call, whatever an earlier operation left behind.
C8_EmptyInputEmptyResult ==
    /\ bulkPc = "noop" => (qrs = <<>> /\ encodeLog = <<>>)
    /\ filePc = "noop" => (scanResults = <<>> /\ allResults = <<>>)

(* ======================= properties: live capture ====================== *)
\* no start in progress and no stop under way
CaptureSettled ==
    pendingCameras = 0 /\ \A i \in Instances : inst[i] \notin {"starting", "stopping"}

\* C3 (as stated): at most one camera device stream is open at any time.
C3_AtMostOneStream == Cardinality(streams) <= 1

\* C4 (as stated): the first frame that decodes makes the result list the single
\* 'Camera Scan' result with the decoded text, and the view then stops the capture
\* that decoded it without user action; when that stop has resolved the session is
\* idle (isScanning false) and the device stream is released.
C4_FirstDecodeStopsCapture ==
    /\ event.kind = "frame" =>
        /\ scanResults = <<[fileName |-> "Camera Scan", decodedText |-> event.text]>>
        /\ inst[event.inst] = "stopping"
    /\ (event.kind = "stopResolved" /\ event.inst \in decoded) =>
        (~isScanning /\ event.inst \notin streams)

\* C5 (as stated): whenever the session is logically stopped (isScanning false, no
\* start in progress, no stop under way) no device stream the view opened is still
\* open, also after a stop() of the library that failed.
C5_StoppedMeansReleased == (~isScanning /\ CaptureSettled) => streams = {}

\* C6 (as stated): a start request that fails (enumeration rejects, no device, or the
\* stream does not open) ends idle with no stream open and with a user-facing notice.
C6_FailedStartIsNoticed ==
    event.kind \in {"camerasRejected", "camerasEmpty", "startRejected"} =>
        /\ notice = "permission"
        /\ (CaptureSettled => (~isScanning /\ streams = {}))

(* ====================== properties: uploaded files ===================== *)
\* the launched decodes that resolved
Decoded == {i \in 1..Len(allResults) : allResults[i] \notin {Null, Pending}}

\* C7: a selection of more than 10 files is rejected as a whole: the too-many-files
\* notice is raised, no decode is launched, and the result list and the
\* isProcessingFile flag are left as they were; a selection of 1 to 10 files is not
\* rejected.
C7_TooManyFilesRejected ==
    [][ /\ (event'.kind = "fileChange" /\ event'.count > 10) =>
            /\ filePc' = "rejected"
            /\ notice' = "toomany"
            /\ allResults' = <<>>
            /\ UNCHANGED <<scanResults, isProcessingFile>>
        /\ (event'.kind = "fileChange" /\ event'.count \in 1..10) =>
            (filePc' = "await" /\ notice' = "none") ]_vars

\* 11 files rejected while the results of an earlier upload are shown
C7_Witness ==
    /\ filePc = "rejected" /\ Len(files) = 11 /\ notice = "toomany"
    /\ scanResults # <<>>

\* C9: when handleFileChange has awaited all decodes, the result list holds exactly one
\* result per file that decoded, labelled with that file's name and carrying its text,
\* none for a file that failed, in the order of the files.
C9_FileResultsInFileOrder ==
    event.kind = "filesDone" =>
        /\ Len(allResults) = Len(files)
        /\ Len(scanResults) = Cardinality(Decoded)
        /\ \A i \in Decoded :
            scanResults[Rank(Decoded, i)] =
                [fileName |-> files[i].name, decodedText |-> files[i].qr]

\* three files done, the first failed, the other two decoded and differ in name
C9_Witness ==
    /\ event.kind = "filesDone" /\ Len(files) = 3
    /\ allResults[1] = Null /\ Decoded = {2, 3}
    /\ files[2].name # files[3].name

\* C10: the 'nothing found' notice is raised by the step that follows the last decode,
\* if and only if no file decoded; no other step of a file batch raises it.
C10_NothingFoundOnce ==
    /\ notice = "nothing" <=> (event.kind = "filesDone" /\ Decoded = {})
    /\ notice = "nothing" => \A i \in 1..Len(allResults) : allResults[i] = Null
    /\ event.kind \in {"scanResolved", "scanRejected"} => notice = "none"

\* a batch of two files, both failed, and the notice
C10_Witness ==
    /\ event.kind = "filesDone" /\ Len(files) = 2 /\ Decoded = {} /\ notice = "nothing"


\* ---------------------------------------------------------------------------
\* BulkGeneratorView.downloadZip (App.tsx:127-136)
\* ---------------------------------------------------------------------------

\* the characters the pattern /[^a-z0-9]/gi leaves alone (App.tsx:130)
AlphaNum ==
    {"a","b","c","d","e","f","g","h","i","j","k","l","m",
     "n","o","p","q","r","s","t","u","v","w","x","y","z",
     "A","B","C","D","E","F","G","H","I","J","K","L","M",
     "N","O","P","Q","R","S","T","U","V","W","X","Y","Z",
     "0","1","2","3","4","5","6","7","8","9"}

\* url.replace(/[^a-z0-9]/gi, '_')
Sanitize(s) == [k \in 1..Len(s) |-> IF s[k] \in AlphaNum THEN s[k] ELSE "_"]

SliceOneMore(s, n) == SubSeq(s, 1, IF Len(s) <= n THEN Len(s) ELSE n + 1)

\* s.slice(0, n)
Slice(s, n) == SubSeq(s, 1, IF Len(s) < n THEN Len(s) ELSE n)

DecimalDigits == <<"0","1","2","3","4","5","6","7","8","9">>

\* the decimal text a template literal gives a non-negative integer
RECURSIVE NumberToString(_)
NumberToString(n) ==
    IF n < 10 THEN <<DecimalDigits[n + 1]>>
    ELSE NumberToString(n \div 10) \o <<DecimalDigits[(n % 10) + 1]>>

\* the text 'qrcode_' of the fallback name
QrcodePrefix == <<"q","r","c","o","d","e","_">>

\* App.tsx:130, index counted from 0 as forEach counts it
FileName(url, index) ==
    LET name == Slice(Sanitize(url), NameLimit)
    IN  IF name # <<>> THEN name ELSE QrcodePrefix \o NumberToString(index + 1)

\* qr.dataUrl.split(',')[1]: the part of the data URL after the comma
Base64Of(dataUrl) == dataUrl[2]

\* the entry name `${fileName}.png`
PngName(fileName) == fileName \o <<".","p","n","g">>

\* JSZip's zip.file(name, data): adds the entry, replacing one of the same name
ZipFile(z, name, data) ==
    [k \in (DOMAIN z) \cup {name} |-> IF k = name THEN data ELSE z[k]]

\* the forEach of App.tsx:129-132 over the first n results
RECURSIVE ZipOf(_, _)
ZipOf(list, n) ==
    IF n = 0 THEN <<>>
    ELSE ZipFile(ZipOf(list, n - 1),
                 PngName(FileName(list[n].url, n - 1)),
                 Base64Of(list[n].dataUrl))

\* the file names the forEach derives, one per result
ZipCallsOf(list) ==
    [k \in 1..Len(list) |-> [url |-> list[k].url, fileName |-> FileName(list[k].url, k - 1)]]

\* click on "Download All as .zip", shown while qrs.length > 0 (App.tsx:153);
\* one export is followed at a time
DownloadZip ==
    /\ Len(qrs) > 0
    /\ zipPc # "generating"
    /\ zip' = ZipOf(qrs, Len(qrs))
    /\ zipCalls' = ZipCallsOf(qrs)
    /\ zipPc' = "generating"
    /\ zipReport' = "none"
    /\ UNCHANGED <<saved, bulkVars, scanVars, classifyVars, workerVars, mounted, singleVars>>

\* generateAsync resolved: .then hands the blob to saveAs (App.tsx:133-135)
ZipResolved ==
    /\ zipPc = "generating"
    /\ saved' = saved \cup {zip}
    /\ zipPc' = "saved"
    /\ UNCHANGED <<zip, zipCalls, zipReport, bulkVars, scanVars, classifyVars, workerVars, mounted, singleVars>>

\* generateAsync rejected: the chain has no catch, so the rejection is left
\* to the runtime as an unhandled one
ZipRejected ==
    /\ zipPc = "generating"
    /\ zipPc' = "failed"
    /\ zipReport' = "unhandled"
    /\ UNCHANGED <<zip, zipCalls, saved, bulkVars, scanVars, classifyVars, workerVars, mounted, singleVars>>

NextZip == DownloadZip \/ ZipResolved \/ ZipRejected

\* characters of the short source texts: kept letters of both cases, a kept
\* digit, a replaced character
NameChars == {"a", "Z", "9", "/"}

\* n copies of character c
Repeat(c, n) == [k \in 1..n |-> c]

\* source texts around the length limit
LongTexts == {Repeat("a", NameLimit - 1), Repeat("a", NameLimit),
              Repeat("a", NameLimit + 1), Repeat("/", NameLimit + 1)}

\* trimmed non-empty lines, the urls generateBulk keeps (App.tsx:108)
NameTexts ==
    (UNION {[1..n -> NameChars] : n \in 1..MaxName}) \cup LongTexts

\* result lists generateBulk can leave in qrs (App.tsx:118, 123)
ResultLists ==
    UNION {[1..n -> {[url |-> t, dataUrl |-> DataUrl(t)] : t \in NameTexts}] : n \in 1..MaxQrs}

\* the state after a finished run of generateBulk, input cleared
InitZip ==
    /\ qrs \in ResultLists
    /\ urls = <<>> /\ isLoading = FALSE /\ bulkPc = "done"
    /\ urlList = [k \in 1..Len(qrs) |-> qrs[k].url]
    /\ generatedQrs = qrs
    /\ encodeLog = [k \in 1..Len(qrs) |-> [url |-> qrs[k].url, status |-> "ok"]]
    /\ scanResults = <<>> /\ isScanning = FALSE /\ isProcessingFile = FALSE
    /\ scannerRef = 0 /\ pendingCameras = 0
    /\ inst = [i \in Instances |-> "none"] /\ streams = {} /\ decoded = {}
    /\ filePc = "init" /\ files = <<>> /\ allResults = <<>>
    /\ event = [kind |-> "none"] /\ notice = "none"
    /\ zipPc = "idle" /\ zip = <<>> /\ zipCalls = <<>> /\ saved = {}
    /\ zipReport = "none"
    /\ shownText = <<>> /\ rendered = "none"
    /\ swPc = "parsed" /\ cacheStore = <<>> /\ deleting = {} /\ activateOk = TRUE
    /\ fetchPc = "idle" /\ fetchReq = "none" /\ response = [from |-> "none"]
    /\ mounted = TRUE
    /\ singleUrl = <<>> /\ qrCode = <<>> /\ singleLoading = FALSE
    /\ singlePc = "idle" /\ singleCall = <<>>

SpecZip == InitZip /\ [][NextZip]_vars


\* ---- C11 ----
\* characters of the model's source texts the pattern keeps
KeptChars == {"a", "Z", "9"}

\* the name is the source text with every character outside letters and digits
\* replaced by "_", cut to its first 50 characters
IsSanitizedPrefix(name, url) ==
    /\ Len(name) = (IF Len(url) <= 50 THEN Len(url) ELSE 50)
    /\ \A j \in 1..Len(name) :
          name[j] = (IF url[j] \in KeptChars THEN url[j] ELSE "_")

\* C11: the file name downloadZip derives for a result is its url with every
\* non-alphanumeric character replaced by "_", truncated to 50 characters, and
\* 'qrcode_<index+1>' when that is empty; for every result generateBulk can
\* produce the name has at most 50 characters, and an empty sanitized name of
\* the third item is 'qrcode_3'.
C11_FileNameDerivation ==
    /\ Len(zipCalls) \in {0, Len(qrs)}
    /\ \A k \in 1..Len(zipCalls) :
          /\ zipCalls[k].url = qrs[k].url
          /\ Len(zipCalls[k].fileName) <= 50
          /\ zipCalls[k].fileName # <<>>
          /\ IsSanitizedPrefix(zipCalls[k].fileName, zipCalls[k].url)
    /\ FileName(<<>>, 2) = <<"q","r","c","o","d","e","_","3">>
    /\ FileName(<<"h","t","t","p","s",":","/","/","a",".","c","o","m","/","b","?","c","=","1">>, 0)
          = <<"h","t","t","p","s","_","_","_","a","_","c","o","m","_","b","_","c","_","1">>

\* an export whose first result has a 51-character url of replaced characters
C11_Witness ==
    /\ zipPc = "generating"
    /\ zipCalls[1].url = Repeat("/", 51)
    /\ zipCalls[1].fileName = Repeat("_", 50)


\* ---- C15 ----
\* C15: downloadZip is atomic: either the blob of the whole archive is handed to
\* the download trigger, or nothing is downloaded and an export failure is
\* reported to the user; a failed export is not silently lost.
C15_ExportDeliveredOrReported ==
    /\ zipPc = "saved" => zip \in saved
    /\ \A blob \in saved : blob = ZipOf(qrs, Len(qrs))
    /\ zipPc = "failed" => zipReport = "reported"

\* ---- C16 ----
\* C16: the archive holds exactly one entry per result of the list that was
\* exported, also when derived names collide or a line is repeated.
C16_OneEntryPerResult ==
    zipPc # "idle" => Cardinality(DOMAIN zip) = Len(zipCalls)


\* ---------------------------------------------------------------------------
\* ScannerView.isSafeUrl and the markup of one result (App.tsx:277-284, 336-349)
\* ---------------------------------------------------------------------------
\* new URL(text) is the platform's URL parser (WHATWG URL, no base URL).  What
\* is modelled of it: leading and trailing spaces are stripped; the text must
\* start with a scheme, a letter followed by letters, digits, "+", "-", "." and
\* ended by ":", which is lower-cased; without one the constructor throws; a
\* special scheme (http, https, ftp, ws, wss) needs a non-empty host without
\* forbidden characters after any number of slashes, else the constructor
\* throws; any other scheme takes whatever follows as its path.  Credentials,
\* ports and the file scheme are outside the texts followed here.

LowerLetters == <<"a","b","c","d","e","f","g","h","i","j","k","l","m",
                  "n","o","p","q","r","s","t","u","v","w","x","y","z">>
UpperLetters == <<"A","B","C","D","E","F","G","H","I","J","K","L","M",
                  "N","O","P","Q","R","S","T","U","V","W","X","Y","Z">>
Letters == {LowerLetters[k] : k \in 1..26} \cup {UpperLetters[k] : k \in 1..26}

\* ASCII lower-casing of one character
ToLower(c) ==
    IF \E k \in 1..26 : UpperLetters[k] = c
    THEN LowerLetters[CHOOSE k \in 1..26 : UpperLetters[k] = c]
    ELSE c

\* the parser's leading and trailing strip
RECURSIVE StripSpace(_)
StripSpace(s) ==
    IF s # <<>> /\ Head(s) = " " THEN StripSpace(Tail(s))
    ELSE IF s # <<>> /\ s[Len(s)] = " " THEN StripSpace(SubSeq(s, 1, Len(s) - 1))
    ELSE s

\* position of the first ":" of s, 0 when there is none
FirstColon(s) ==
    IF \E k \in 1..Len(s) : s[k] = ":"
    THEN CHOOSE k \in 1..Len(s) : s[k] = ":" /\ \A j \in 1..(k - 1) : s[j] # ":"
    ELSE 0

\* scheme start state and scheme state
IsScheme(w) ==
    /\ w # <<>>
    /\ w[1] \in Letters
    /\ \A k \in 1..Len(w) : w[k] \in AlphaNum \cup {"+", "-", "."}

SpecialSchemes == {<<"h","t","t","p">>, <<"h","t","t","p","s">>, <<"f","t","p">>, <<"w","s">>, <<"w","s","s">>}

\* the slashes a special scheme lets precede its authority
RECURSIVE SkipSlashes(_)
SkipSlashes(s) == IF s # <<>> /\ Head(s) \in {"/", "\\"} THEN SkipSlashes(Tail(s)) ELSE s

\* the authority: up to the first delimiter of path, query or fragment
RECURSIVE HostOf(_)
HostOf(s) ==
    IF s = <<>> \/ Head(s) \in {"/", "\\", "?", "#"} THEN <<>>
    ELSE <<Head(s)>> \o HostOf(Tail(s))

ForbiddenHostChars == {" ", "<", ">", "[", "]", "^", "|", "%"}

\* new URL(text): [ok |-> FALSE] stands for the TypeError it throws
ParseUrl(text) ==
    LET t == StripSpace(text)
        c == FirstColon(t)
        scheme == [k \in 1..(c - 1) |-> ToLower(t[k])]
        rest == SubSeq(t, c + 1, Len(t))
        host == HostOf(SkipSlashes(rest))
    IN  IF c = 0 \/ ~IsScheme(SubSeq(t, 1, c - 1))
        THEN [ok |-> FALSE]
        ELSE IF scheme \in SpecialSchemes
                /\ (host = <<>> \/ \E k \in 1..Len(host) : host[k] \in ForbiddenHostChars)
        THEN [ok |-> FALSE]
        ELSE [ok |-> TRUE, protocol |-> scheme \o <<":">>]

\* ['https:', 'http:', 'mailto:', 'tel:'] (App.tsx:280)
SafeProtocols == {<<"h","t","t","p","s",":">>, <<"h","t","t","p",":">>, <<"m","a","i","l","t","o",":">>, <<"t","e","l",":">>}

IsSafeUrlByPrefix(url) ==
    \E p \in SafeProtocols :
        Len(url) >= Len(p) /\ SubSeq(url, 1, Len(p)) = p

\* isSafeUrl: the catch turns a failed parse into false
IsSafeUrl(url) ==
    LET parsedUrl == ParseUrl(url)
    IN  IF parsedUrl.ok THEN parsedUrl.protocol \in SafeProtocols ELSE FALSE

\* decoded texts: an optional leading space, a first word, a separator, a rest
LeadParts == {<<>>, <<" ">>}
WordParts == {<<>>, <<"h","t","t","p","s">>, <<"H","T","T","P">>, <<"h","t","t","p">>, <<"m","a","i","l","t","o">>, <<"t","e","l">>, <<"f","t","p">>, <<"j","a","v","a","s","c","r","i","p","t">>, <<"h","e","l","l","o"," ","w","o","r","l","d">>, <<"1","h","t","t","p">>}
SepParts  == {<<>>, <<":">>, <<":","/","/">>}
RestParts == {<<>>, <<"x",".","c","o","m">>, <<"+","1","2","3">>}

DecodedTexts ==
    {l \o w \o p \o r : l \in LeadParts, w \in WordParts, p \in SepParts, r \in RestParts}

\* a result with this text enters the list that is rendered
ShowResult ==
    /\ \E t \in DecodedTexts : shownText' = t
    /\ rendered' = "none"
    /\ UNCHANGED <<bulkVars, scanVars, zipVars, workerVars, mounted, singleVars>>

\* the markup of the result (App.tsx:339-345)
RenderResult ==
    /\ rendered = "none"
    /\ rendered' = (IF IsSafeUrl(shownText) THEN "Link" ELSE "PlainText")
    /\ UNCHANGED <<shownText, bulkVars, scanVars, zipVars, workerVars, mounted, singleVars>>

NextClassify == ShowResult \/ RenderResult

SpecClassify == Init /\ [][NextClassify]_vars

\* ---- C12 ----
\* the texts of the specification's examples
ExampleHttps == <<"h","t","t","p","s",":","/","/","x",".","c","o","m">>
ExampleTel   == <<"t","e","l",":","+","1","2","3">>
ExampleFtp   == <<"f","t","p",":","/","/","x",".","c","o","m">>
ExampleWords == <<"h","e","l","l","o"," ","w","o","r","l","d">>

\* C12: a decoded text is shown as a Link exactly when parsing it as a URI
\* succeeds and its scheme is one of https, http, mailto, tel; every other text,
\* and every text whose parsing fails, is shown as PlainText; classifying never
\* raises an error.
C12_LinkIffSafeScheme ==
    /\ rendered \in {"none", "Link", "PlainText"}
    /\ rendered # "none" =>
          /\ rendered = "Link" <=>
                /\ ParseUrl(shownText).ok
                /\ \E name \in {<<"h","t","t","p","s">>, <<"h","t","t","p">>, <<"m","a","i","l","t","o">>, <<"t","e","l">>} :
                      ParseUrl(shownText).protocol = name \o <<":">>
          /\ shownText \in {ExampleHttps, ExampleTel} => rendered = "Link"
          /\ shownText \in {ExampleFtp, ExampleWords} => rendered = "PlainText"
          /\ ~ParseUrl(shownText).ok => rendered = "PlainText"

\* a text with a safe scheme that does not parse, shown as plain text
C12_Witness ==
    /\ shownText = <<"h","t","t","p","s",":">>
    /\ ~ParseUrl(shownText).ok
    /\ rendered = "PlainText"


\* ---- C13 ----
\* no capture is active: no scanner instance, or one that is not scanning
NoActiveCapture == scannerRef = 0 \/ ~LibIsScanning(scannerRef)

\* C13: a stop request while no capture is active, from the Stop button or from
\* the decode callback, is a no-op: it raises no error, calls nothing on the
\* capture device and leaves isScanning, the scanner reference and (for the
\* button) the scan result list unchanged.
C13_IdleStopIsNoOp ==
    [][ /\ (event'.kind = "stopClick" /\ NoActiveCapture)
            => /\ UNCHANGED <<isScanning, scannerRef, scanResults, inst, streams>>
               /\ notice' = "none"
        /\ (event'.kind = "frame" /\ NoActiveCapture)
            => /\ UNCHANGED <<isScanning, scannerRef, inst, streams>>
               /\ notice' = "none"
      ]_vars

\* a click on Stop Scanning while the instance behind the reference has not
\* started scanning yet
C13_Witness ==
    /\ event.kind = "stopClick"
    /\ scannerRef # 0 /\ inst[scannerRef] = "starting"
    /\ ~LibIsScanning(scannerRef)


\* ---- C17 ----
\* the calls issued so far are those of the first lines, in input order, and
\* only the last one can be in flight, while isLoading is true
EncodeCallsSequential ==
    /\ Len(encodeLog) <= Len(urlList)
    /\ \A k \in 1..Len(encodeLog) :
          /\ encodeLog[k].url = urlList[k]
          /\ encodeLog[k].status = "pending" => k = Len(encodeLog) /\ isLoading
    /\ Cardinality({k \in 1..Len(encodeLog) : encodeLog[k].status = "pending"}) <= 1

\* a step that issues the call for a further line settles the call before it
NextCallAfterSettle ==
    (Len(encodeLog) >= 1 /\ Len(encodeLog') = Len(encodeLog) + 1)
        => /\ encodeLog[Len(encodeLog)].status = "pending"
           /\ encodeLog'[Len(encodeLog)].status \in {"ok", "err"}
           /\ encodeLog'[Len(encodeLog')].status = "pending"

\* a step that starts a batch is taken while no batch is running
BatchStartsWhenIdle ==
    (/\ bulkPc' = "await" /\ Len(encodeLog') = 1
     /\ <<urlList, encodeLog, generatedQrs, bulkPc>>' # <<urlList, encodeLog, generatedQrs, bulkPc>>)
        => ~isLoading /\ bulkPc # "await"

\* C17: generateBulk issues the codec calls one after the other in input order:
\* the call for a line starts only when the call for the line before it has
\* resolved or rejected, at most one call of a batch is in flight, and no
\* second batch starts while one is running (isLoading true).
C17_EncodeCallsOneAtATime ==
    [](EncodeCallsSequential) /\ [][NextCallAfterSettle /\ BatchStartsWhenIdle]_vars

\* the second call of a batch in flight after the first one was rejected
C17_Witness ==
    /\ isLoading /\ Len(encodeLog) = 2
    /\ encodeLog[1].status = "err" /\ encodeLog[2].status = "pending"


\* ---------------------------------------------------------------------------
\* The service worker (App.tsx:406-459)
\* ---------------------------------------------------------------------------
\* CacheStorage and fetch belong to the platform.  What is modelled of them:
\* caches.open creates the named cache when it is missing; cache.addAll stores
\* all its urls or none; caches.keys gives the names of the caches that exist;
\* caches.delete removes the cache when it resolves and removes nothing when it
\* rejects; caches.match looks the request up in every cache; the worker
\* becomes active when the promise handed to waitUntil has settled, and fetch
\* events reach it from then on.

CACHE_NAME == "qr-suite-cache-v3"

urlsToCache ==
    {"/", "/index.html", "/manifest.json",
     "/images/icons/icon-192x192.png", "/images/icons/icon-512x512.png",
     "/images/icons/maskable_icon.png",
     "https://cdn.tailwindcss.com",
     "https://esm.sh/react@^19.1.1", "https://esm.sh/react-dom@^19.1.1/client",
     "https://esm.sh/qrcode@1.5.3", "https://esm.sh/jszip@3.10.1",
     "https://esm.sh/file-saver@2.0.5", "https://esm.sh/html5-qrcode@2.3.8"}

\* caches an earlier generation of the worker, or the page, may have left
OldCacheNames == {"qr-suite-cache-v1", "qr-suite-cache-v2", "fonts"}

\* what such a cache may hold
OldContents == {{}, {"/", "/old.js"}}

\* the requests the page makes
Requests == {"/", "/index.html", "/old.js", "/api/data"}

IsStaleAlways(cacheName) == TRUE

\* cacheWhitelist.indexOf(cacheName) === -1, cacheWhitelist = [CACHE_NAME]
IsStale(cacheName) == cacheName \notin {CACHE_NAME}

\* the install event fires: caches.open(CACHE_NAME) up to its resolution
InstallOpen ==
    /\ swPc = "parsed"
    /\ swPc' = "installing"
    /\ cacheStore' = [n \in (DOMAIN cacheStore) \cup {CACHE_NAME} |->
                         IF n \in DOMAIN cacheStore THEN cacheStore[n] ELSE {}]
    /\ UNCHANGED <<deleting, activateOk, fetchPc, fetchReq, response,
                   bulkVars, scanVars, zipVars, classifyVars, mounted, singleVars>>

\* cache.addAll(urlsToCache) resolves: installation succeeds
AddAllResolved ==
    /\ swPc = "installing"
    /\ swPc' = "installed"
    /\ cacheStore' = [cacheStore EXCEPT ![CACHE_NAME] = @ \cup urlsToCache]
    /\ UNCHANGED <<deleting, activateOk, fetchPc, fetchReq, response,
                   bulkVars, scanVars, zipVars, classifyVars, mounted, singleVars>>

\* cache.addAll(urlsToCache) rejects: the worker is discarded
AddAllRejected ==
    /\ swPc = "installing"
    /\ swPc' = "redundant"
    /\ UNCHANGED <<cacheStore, deleting, activateOk, fetchPc, fetchReq, response,
                   bulkVars, scanVars, zipVars, classifyVars, mounted, singleVars>>

\* the activate event fires and caches.keys() resolves: one caches.delete per
\* name outside the whitelist (App.tsx:436-444)
ActivateKeys ==
    /\ swPc = "installed"
    /\ swPc' = "activating"
    /\ deleting' = {n \in DOMAIN cacheStore : IsStale(n)}
    /\ activateOk' = TRUE
    /\ UNCHANGED <<cacheStore, fetchPc, fetchReq, response,
                   bulkVars, scanVars, zipVars, classifyVars, mounted, singleVars>>

\* one caches.delete(cacheName) resolves
DeleteResolved ==
    \E n \in deleting :
        /\ cacheStore' = [m \in (DOMAIN cacheStore) \ {n} |-> cacheStore[m]]
        /\ deleting' = deleting \ {n}
        /\ UNCHANGED <<swPc, activateOk, fetchPc, fetchReq, response,
                       bulkVars, scanVars, zipVars, classifyVars, mounted, singleVars>>

\* one caches.delete(cacheName) rejects: Promise.all rejects
DeleteRejected ==
    \E n \in deleting :
        /\ deleting' = deleting \ {n}
        /\ activateOk' = FALSE
        /\ UNCHANGED <<swPc, cacheStore, fetchPc, fetchReq, response,
                       bulkVars, scanVars, zipVars, classifyVars, mounted, singleVars>>

\* every delete has settled: the promise of waitUntil has, and the worker is active
ActivateDone ==
    /\ swPc = "activating" /\ deleting = {}
    /\ swPc' = (IF activateOk THEN "activated" ELSE "activateFailed")
    /\ UNCHANGED <<cacheStore, deleting, activateOk, fetchPc, fetchReq, response,
                   bulkVars, scanVars, zipVars, classifyVars, mounted, singleVars>>

\* a fetch event: caches.match(event.request) is pending
FetchEvent ==
    /\ swPc \in {"activated", "activateFailed"}
    /\ fetchPc = "idle"
    /\ \E r \in Requests : fetchReq' = r
    /\ fetchPc' = "matching"
    /\ response' = [from |-> "none"]
    /\ UNCHANGED <<swPc, cacheStore, deleting, activateOk,
                   bulkVars, scanVars, zipVars, classifyVars, mounted, singleVars>>

\* caches.match resolves: the cached response, or fetch(event.request)
MatchResolved ==
    /\ fetchPc = "matching"
    /\ IF \E n \in DOMAIN cacheStore : fetchReq \in cacheStore[n]
       THEN /\ response' = [from |-> "cache", url |-> fetchReq]
            /\ fetchPc' = "idle"
       ELSE /\ response' = response
            /\ fetchPc' = "network"
    /\ UNCHANGED <<swPc, cacheStore, deleting, activateOk, fetchReq,
                   bulkVars, scanVars, zipVars, classifyVars, mounted, singleVars>>

\* fetch(event.request) settles: the network's response, or its failure
NetworkSettled ==
    /\ fetchPc = "network"
    /\ \E ok \in BOOLEAN :
          response' = [from |-> IF ok THEN "network" ELSE "networkError", url |-> fetchReq]
    /\ fetchPc' = "idle"
    /\ UNCHANGED <<swPc, cacheStore, deleting, activateOk, fetchReq,
                   bulkVars, scanVars, zipVars, classifyVars, mounted, singleVars>>

NextWorker ==
    \/ InstallOpen \/ AddAllResolved \/ AddAllRejected
    \/ ActivateKeys \/ DeleteResolved \/ DeleteRejected \/ ActivateDone
    \/ FetchEvent \/ MatchResolved \/ NetworkSettled

\* the cache stores the worker can find when it is installed
CacheStores ==
    UNION {[S -> OldContents] : S \in SUBSET (OldCacheNames \cup {CACHE_NAME})}

InitWorker ==
    /\ cacheStore \in CacheStores
    /\ swPc = "parsed" /\ deleting = {} /\ activateOk = TRUE
    /\ fetchPc = "idle" /\ fetchReq = "none" /\ response = [from |-> "none"]
    /\ urls = <<>> /\ qrs = <<>> /\ isLoading = FALSE /\ bulkPc = "init"
    /\ urlList = <<>> /\ generatedQrs = <<>> /\ encodeLog = <<>>
    /\ scanResults = <<>> /\ isScanning = FALSE /\ isProcessingFile = FALSE
    /\ scannerRef = 0 /\ pendingCameras = 0
    /\ inst = [i \in Instances |-> "none"] /\ streams = {} /\ decoded = {}
    /\ filePc = "init" /\ files = <<>> /\ allResults = <<>>
    /\ event = [kind |-> "none"] /\ notice = "none"
    /\ zipPc = "idle" /\ zip = <<>> /\ zipCalls = <<>> /\ saved = {}
    /\ zipReport = "none"
    /\ shownText = <<>> /\ rendered = "none"
    /\ mounted = TRUE
    /\ singleUrl = <<>> /\ qrCode = <<>> /\ singleLoading = FALSE
    /\ singlePc = "idle" /\ singleCall = <<>>

SpecWorker == InitWorker /\ [][NextWorker]_vars

\* ---- C18 ----
\* a cached response matches the request
Cached(req) == \E n \in DOMAIN cacheStore : req \in cacheStore[n]

\* C18: once the activate handler has completed, every cache named otherwise
\* than the current generation has been deleted, and no step deletes the cache
\* of the current generation; the fetch handler answers from the cache when a
\* cached response matches the request, turns to the network only otherwise,
\* and never writes to the cache.
C18_WorkerCachePolicy ==
    /\ [](swPc = "activated" =>
            /\ DOMAIN cacheStore = {"qr-suite-cache-v3"}
            /\ urlsToCache \subseteq cacheStore["qr-suite-cache-v3"])
    /\ [][ /\ "qr-suite-cache-v3" \in DOMAIN cacheStore
                => "qr-suite-cache-v3" \in DOMAIN cacheStore'
           /\ (fetchPc = "matching" /\ fetchPc' # "matching")
                => /\ Cached(fetchReq) => fetchPc' = "idle" /\ response'.from = "cache"
                   /\ ~Cached(fetchReq) => fetchPc' = "network" /\ response'.from = "none"
           /\ (fetchPc # "idle" \/ fetchPc' # "idle") => cacheStore' = cacheStore
         ]_vars

\* after an activation that deleted an old cache, a request the cache does not
\* hold was answered by the network
C18_Witness ==
    /\ swPc = "activated"
    /\ response = [from |-> "network", url |-> "/old.js"]
    /\ ~Cached("/old.js")


\* ---------------------------------------------------------------------------
\* ScannerView leaves the page: the effect cleanup (App.tsx:228-234)
\* ---------------------------------------------------------------------------
\* One life of the view is followed, from its mount to the time after its
\* unmount; promises that were pending at the unmount still settle and run the
\* callbacks of the unmounted view.  The state setters those callbacks call
\* have no reader any more; the scanner reference is a plain object and keeps
\* its value.

\* the tab is switched away from 'scan': React runs the cleanup
Unmount ==
    /\ mounted
    /\ mounted' = FALSE
    /\ inst' = (IF scannerRef # 0 /\ LibIsScanning(scannerRef) THEN StopScan ELSE inst)
    /\ event' = [kind |-> "unmount"]
    /\ notice' = "none"
    /\ UNCHANGED <<scanResults, isScanning, isProcessingFile, scannerRef, pendingCameras,
                   streams, decoded, fileVars, bulkVars, zipVars, classifyVars, workerVars, singleVars>>

\* getCameras() resolves with devices after the unmount: the element 'qr-reader'
\* is gone, new Html5Qrcode(readerId) throws, the catch of 210-213 runs
CamerasFoundUnmounted ==
    /\ ~mounted
    /\ pendingCameras > 0
    /\ pendingCameras' = pendingCameras - 1
    /\ isScanning' = TRUE
    /\ event' = [kind |-> "camerasFoundUnmounted"]
    /\ notice' = "permission"
    /\ UNCHANGED <<scanResults, isProcessingFile, scannerRef, inst, streams, decoded,
                   fileVars, bulkVars, auxVars>>

NextUnmount == NextCamera \/ Unmount \/ CamerasFoundUnmounted

SpecUnmount == Init /\ [][NextUnmount]_vars

\* ---- C19 ----
\* C19 (as stated): once the view has been unmounted and every pending callback
\* has run, no device stream the view opened is still open.
C19_UnmountReleasesCamera == (~mounted /\ CaptureSettled) => streams = {}

\* ---------------------------------------------------------------------------
\* ScannerView: live capture and uploads of one file side by side
\* ---------------------------------------------------------------------------

\* the selection followed next to a live capture: one file; empty and longer
\* selections are followed in SpecFile
OneFileSelections == {<<f>> : f \in {g \in Files : g.name = "a.png"}}

FilePickOne == FileChangeOf(OneFileSelections)

NextScanner ==
    \/ NextCamera
    \/ FilePickOne \/ ScanFileResolved \/ ScanFileRejected \/ FilesDone

SpecScanner == Init /\ [][NextScanner]_vars

\* ---- C20 ----
\* a capture session is requesting permission, starting or capturing
CaptureInProgress ==
    \/ pendingCameras > 0
    \/ \E i \in Instances : inst[i] \in {"starting", "scanning"}

\* C20 (as stated): no file batch is being processed while a capture session is
\* requesting permission or capturing.
C20_CaptureExcludesFileBatch == ~(isProcessingFile /\ CaptureInProgress)


\* ---------------------------------------------------------------------------
\* The views that hold a result list, one of them in use (App.tsx:362-369)
\* ---------------------------------------------------------------------------
\* App mounts one view at a time, and a view that is mounted anew starts from
\* its initial state: the bulk view is followed while the scanner view has not
\* been used, and the other way round.

\* texts pasted into the textarea in one change event
PastedTexts == {<<"a">>, <<"b", "\n", "a">>, <<"a", "\n", " ", "\n", "b">>}

\* onChange={e => setUrls(e.target.value)} with a whole text
PasteUrls ==
    /\ \E t \in PastedTexts : urls' = t
    /\ UNCHANGED <<qrs, isLoading, bulkPc, urlList, generatedQrs, encodeLog, scanVars, auxVars>>

BulkViewUnused == urls = <<>> /\ bulkPc = "init"

ScannerViewUnused == event.kind = "none"

NextResults ==
    \/ BulkViewUnused /\ NextScanner
    \/ ScannerViewUnused /\ (PasteUrls \/ GenerateBulk \/ EncodeResolved \/ EncodeRejected)

SpecResults == Init /\ [][NextResults]_vars

\* ---- C14 ----
\* the results of the file batch that has just completed, in file order
BatchResults ==
    SelectSeq(allResults, LAMBDA r : r # Null)

\* the number of calls of the bulk run that resolved
BulkSuccesses ==
    Cardinality({k \in 1..Len(encodeLog) : encodeLog[k].status = "ok"})

\* C14: when a bulk generate over a non-empty list, a camera scan or a file
\* upload of 1 to 10 files completes, its result list holds the results of
\* that operation only, none carried over or merged from an earlier one,
\* whatever operations ran before it or alongside it.
C14_ResultsReplaced ==
    /\ event.kind = "frame" =>
          scanResults = <<[fileName |-> "Camera Scan", decodedText |-> event.text]>>
    /\ event.kind = "filesDone" =>
          /\ scanResults = BatchResults
          /\ \A k \in 1..Len(scanResults) :
                /\ scanResults[k].fileName # "Camera Scan"
                /\ \E i \in 1..Len(files) :
                      scanResults[k] = [fileName |-> files[i].name, decodedText |-> files[i].qr]
    /\ (bulkPc = "done" /\ Len(urlList) > 0) =>
          /\ Len(qrs) = BulkSuccesses
          /\ \A k \in 1..Len(qrs) :
                \E i \in 1..Len(urlList) : encodeLog[i].status = "ok" /\ qrs[k].url = urlList[i]

\* a file upload that completes after a frame of a running capture was decoded
C14_Witness ==
    /\ event.kind = "filesDone"
    /\ decoded # {}
    /\ scanResults = <<[fileName |-> "a.png", decodedText |-> "t1"]>>


\* ---------------------------------------------------------------------------
\* GeneratorView.generateQR (App.tsx:48-70)
\* ---------------------------------------------------------------------------

\* texts of the input field: empty, blank, two urls
SingleTexts == {<<>>, <<" ">>, <<"a">>, <<"b">>}

\* onChange={(e) => setUrl(e.target.value)}
SetUrl ==
    /\ \E t \in SingleTexts : singleUrl' = t
    /\ UNCHANGED <<qrCode, singleLoading, singlePc, singleCall,
                   bulkVars, scanVars, zipVars, classifyVars, workerVars, mounted>>

AfterCallbackOnSuccess(err) == err

\* setIsLoading(false), the first statement of the callback, before the test of
\* err (App.tsx:59): the value of isLoading after the callback
AfterCallback(err) == FALSE

\* click on Generate QR Code (disabled={!url || isLoading}); generateQR up to
\* the call of QRCode.toDataURL, or to its early return
GenerateQR ==
    /\ singleUrl # <<>> /\ ~singleLoading
    /\ IF Trim(singleUrl) = <<>>
       THEN /\ qrCode' = <<>>
            /\ UNCHANGED <<singleLoading, singlePc, singleCall>>
       ELSE /\ singleLoading' = TRUE
            /\ singlePc' = "await"
            /\ singleCall' = singleUrl
            /\ UNCHANGED qrCode
    /\ UNCHANGED <<singleUrl, bulkVars, scanVars, zipVars, classifyVars, workerVars, mounted>>

\* the callback runs without an error: 59, 65
QrResolved ==
    /\ singlePc = "await"
    /\ singleLoading' = AfterCallback(FALSE)
    /\ qrCode' = DataUrl(singleCall)
    /\ singlePc' = "idle"
    /\ singleCall' = <<>>
    /\ UNCHANGED <<singleUrl,
                   bulkVars, scanVars, zipVars, classifyVars, workerVars, mounted>>

\* the callback runs with an error: 59-64
QrRejected ==
    /\ singlePc = "await"
    /\ singleLoading' = AfterCallback(TRUE)
    /\ qrCode' = <<>>
    /\ singlePc' = "idle"
    /\ singleCall' = <<>>
    /\ UNCHANGED <<singleUrl,
                   bulkVars, scanVars, zipVars, classifyVars, workerVars, mounted>>

NextSingle == SetUrl \/ GenerateQR \/ QrResolved \/ QrRejected

\* ---------------------------------------------------------------------------
\* The views with a busy flag, one of them in use (App.tsx:362-369)
\* ---------------------------------------------------------------------------

SingleViewUnused == singleUrl = <<>> /\ qrCode = <<>> /\ singlePc = "idle"

\* the selections whose decodes are followed one by one, and one that is too long
ShortSelections ==
    UNION {[1..n -> Files] : n \in 0..MaxPick} \cup {BigSelection(MaxFiles + 1)}

FilePickShort == FileChangeOf(ShortSelections)

NextBusy ==
    \/ BulkViewUnused /\ ScannerViewUnused /\ NextSingle
    \/ SingleViewUnused /\ ScannerViewUnused
          /\ (PasteUrls \/ GenerateBulk \/ EncodeResolved \/ EncodeRejected)
    \/ SingleViewUnused /\ BulkViewUnused
          /\ (FilePickShort \/ ScanFileResolved \/ ScanFileRejected \/ FilesDone)

\* every codec call settles, and the continuation of a settled promise runs
SpecBusy ==
    /\ Init /\ [][NextBusy]_vars
    /\ WF_vars(QrResolved \/ QrRejected)
    /\ WF_vars(EncodeResolved \/ EncodeRejected)
    /\ WF_vars(ScanFileResolved \/ ScanFileRejected)
    /\ WF_vars(FilesDone)

\* ---- C21 ----
\* a busy flag is set only while a run of its handler is waiting
BusyOnlyWhileRunning ==
    /\ singleLoading <=> singlePc = "await"
    /\ isLoading <=> bulkPc = "await"
    /\ isProcessingFile <=> filePc = "await"

\* C21: if every codec call resolves or rejects, every run of generateQR,
\* generateBulk and handleFileChange that sets its busy flag sets it back to
\* false, on success and on every failure path: no flag stays true forever.
C21_BusyFlagsClear ==
    /\ [](BusyOnlyWhileRunning)
    /\ (singleLoading ~> ~singleLoading)
    /\ (isLoading ~> ~isLoading)
    /\ (isProcessingFile ~> ~isProcessingFile)

\* a file batch whose every decode failed, with the flag back to false
C21_Witness ==
    /\ filePc = "done" /\ ~isProcessingFile
    /\ Len(allResults) = 2 /\ \A i \in 1..2 : allResults[i] = Null

====
